---- MODULE Spec2Model ----
(***************************************************************************)
(* The indexer of beakerbrowser/ingestdb (src/webpack.config.js, lines     *)
(* 31-342): addArchive, removeArchive, watchArchive, unwatchArchive,       *)
(* resetOutdatedIndexes, indexArchive, unindexArchive, readAndIndexFile,   *)
(* unindexFile, onFailInitialIndex, scanArchiveHistoryForUpdates,          *)
(* scanArchiveForRecords and applyUpdates.                                 *)
(*                                                                         *)
(* One archive (source) is modelled.  Every key of the index (the lock     *)
(* key, the IndexMeta key, the record urls) carries the archive url, so    *)
(* archives interact only through resetOutdatedIndexes.                    *)
(*                                                                         *)
(* An async function is a process; each action is the code between two     *)
(* awaits.  An awaited call to the archive or to the storage may reject,   *)
(* which is the nondeterministic choice of the step that awaits it.        *)
(***************************************************************************)
EXTENDS Integers, Sequences, FiniteSets, TLC

VARIABLES
  log,      \* the archive's history: entry v is the change that made version v
  dbOpen,   \* db.isOpen || db.isBeingOpened
  meta,     \* db._indexMetaLevel entry of the archive: its version, or NoMeta
  tables,   \* tables[t][path]: the record stored in table t under url + path
  lock,     \* the waiters of lock(`index:${archive.url}`), the holder first
  proc,     \* the indexArchive invocations
  rm,       \* the removeArchive invocation
  reset,    \* the resetOutdatedIndexes invocation
  lastRun,  \* how the last indexArchive run ended, while nothing has changed since
  add,      \* the addArchive invocation, with onFailInitialIndex
  watch,    \* archive.fileEvents and the watchArchive calls awaiting _loadPromise
  tracked   \* archive.url in db._archives

vars == <<log, dbOpen, meta, tables, lock, proc, rm, reset, lastRun, add, watch, tracked>>

(***************************************************************************)
(* Bounds.                                                                 *)
(***************************************************************************)
MaxVersion == 2    \* changes written to the archive
MaxHistory == 3    \* changes of an archive whose history is scanned on its own
NumCallers == 2    \* indexArchive invocations that may be in flight at once
MaxRetries == 2    \* retries of onFailInitialIndex
MaxWatching == 2   \* subscriptions open or being opened at once

(***************************************************************************)
(* The archive's files and the tables.                                     *)
(***************************************************************************)
Paths == {"a", "b", "x"}
Texts == {"1", "2", "{"}     \* file contents; "{" is not JSON
Tables == <<"t1", "t2">>     \* db.tables, in order

\* markers: no IndexMeta entry, no record, text that does not parse
NoMeta == 0 - 1
NoRec == 0 - 1
ParseError == 0 - 2

\* table.isRecordFile(filepath): "a" is a record file of both tables, "b" of
\* the first, "x" of none
isRecordFile(t, path) ==
  \/ Tables[t] = "t1" /\ path \in {"a", "b"}
  \/ Tables[t] = "t2" /\ path = "a"

\* anymatch(db._tableFilePatterns, path)
anymatch(path) == \E t \in 1..Len(Tables) : isRecordFile(t, path)

\* JSON.parse of a file's text
JSONParse(text) ==
  CASE text = "1" -> 1
    [] text = "2" -> 2
    [] OTHER -> ParseError

\* table.schema.validate(record), a throw counting as false; the second table
\* has no validate
IsValid(t, record) ==
  IF Tables[t] = "t1" THEN record # 2 ELSE TRUE

\* table.schema.preprocess(record): each table returns a new record
Preprocess(t, record) ==
  IF Tables[t] = "t1" THEN record + 10 ELSE record + 20

(***************************************************************************)
(* The archive: getInfo, history, readFile at a checkout.                  *)
(***************************************************************************)
\* archive.getInfo().version
Version == Len(log)

\* the version of the last change to path among the first v changes of l, or 0
LastChangeIn(l, path, v) ==
  LET S == {i \in 1..v : l[i].path = path}
  IN IF S = {} THEN 0 ELSE CHOOSE i \in S : \A j \in S : j <= i

LastChange(path, v) == LastChangeIn(log, path, v)

\* whether path is a file of the archive at version v
ExistsIn(l, path, v) ==
  LastChangeIn(l, path, v) # 0 /\ l[LastChangeIn(l, path, v)].type = "put"

Exists(path, v) == ExistsIn(log, path, v)

\* checkoutArchive(db.DatArchive, archive, v).readFile(path)
readFile(path, v) == log[LastChange(path, v)].text

\* archive.history({start, end}): the changes of versions start..end-1, in order
history(start, end) ==
  [k \in 1..(end - start) |->
     [path |-> log[start + k - 1].path, version |-> start + k - 1,
      type |-> log[start + k - 1].type]]

\* the changes the archive's owner may write: a put (of any text to "a", of
\* a valid record to the other files), or the deletion of a record file that
\* exists
ChangesTo(l) ==
  {[path |-> "a", type |-> "put", text |-> x] : x \in Texts}
    \cup {[path |-> p, type |-> "put", text |-> "1"] : p \in Paths \ {"a"}}
    \cup {[path |-> p, type |-> "del", text |-> ""] :
             p \in {q \in Paths : anymatch(q) /\ ExistsIn(l, q, Len(l))}}

Changes == ChangesTo(log)

(***************************************************************************)
(* scanArchiveHistoryForUpdates, as a function of the history slice.       *)
(***************************************************************************)
\* the keys of the updates object, in insertion order: the matching paths in
\* the order of their first change
UpdateKeys(h) ==
  LET firsts == {i \in 1..Len(h) :
                   anymatch(h[i].path) /\ \A j \in 1..(i - 1) : h[j].path # h[i].path}
  IN [k \in 1..Cardinality(firsts) |->
        h[CHOOSE i \in firsts : Cardinality({j \in firsts : j < i}) = k - 1].path]

\* a forEach that keeps the first entry of h with a path
EarliestUpdate(h, path) ==
  h[CHOOSE i \in 1..Len(h) : h[i].path = path /\ \A j \in 1..Len(h) : h[j].path = path => i <= j]

\* updates[path] after the forEach: the last entry of h with that path
LatestUpdate(h, path) ==
  h[CHOOSE i \in 1..Len(h) : h[i].path = path /\ \A j \in 1..Len(h) : h[j].path = path => j <= i]

\* Array.prototype.sort((a, b) => a.version - b.version), a stable sort: the
\* element at position i is the one that i - 1 elements come before, those of
\* a lower version and those of the same version that stood before it
SortByVersion(us) ==
  LET Before(j, k) == us[j].version < us[k].version
                        \/ (us[j].version = us[k].version /\ j < k)
      Rank(k) == Cardinality({j \in 1..Len(us) : Before(j, k)}) + 1
  IN [i \in 1..Len(us) |-> us[CHOOSE k \in 1..Len(us) : Rank(k) = i]]

scanArchiveHistoryForUpdates(h) ==
  LET keys == UpdateKeys(h)
  IN SortByVersion([k \in 1..Len(keys) |-> LatestUpdate(h, keys[k])])

(***************************************************************************)
(* The tables a file goes to.                                              *)
(***************************************************************************)
\* the next table after k that path is a record file of, or 0: the for loop
\* of readAndIndexFile and unindexFile
NextTable(path, k) ==
  LET S == {t \in (k + 1)..Len(Tables) : isRecordFile(t, path)}
  IN IF S = {} THEN 0 ELSE CHOOSE t \in S : \A u \in S : t <= u

(***************************************************************************)
(* indexArchive.                                                           *)
(***************************************************************************)
Callers == 1..NumCallers

\* an invocation: its place (pc) and its local variables; behind tells that it
\* was called while another held the lock, after how the run before it ended
\* when it read the versions, emitted counts its put-record and del-record
\* notifications, wrote the records that readAndIndexFile has put for the
\* update it is at; behind and after are kept up to the invocation's first
\* write
Idle ==
  [pc |-> "idle", start |-> 0, ver |-> NoMeta, updates |-> <<>>, i |-> 0,
   k |-> 0, record |-> 0, emitted |-> 0, wrote |-> 0, behind |-> FALSE,
   after |-> "none"]

\* an awaited call to the archive or to the storage may reject
MayFail == TRUE
ArchiveErrors == {"TimeoutError", "Error"}

\* lastRun once a run ends with res, having read (or failed to read) version
\* ver: "ok" or "failed" if the archive is still at that version and nothing
\* else wrote the index during the run, "none" otherwise
Ended(res, ver) ==
  IF lastRun = "tainted" \/ ver # Version THEN "none"
  ELSE IF res = "ok" THEN "ok" ELSE "failed"

\* the invocation that addArchive and onFailInitialIndex make
Adder == NumCallers + 2

\* setTimeout(resolve, 30e3)
RetryInterval == 30000

\* addArchive: its place (pc), its watch option, whether the archive has a
\* _loadPromise, the time, the retries made, and what has happened: the
\* ends of its indexArchive calls ("returned", "timeout", "error"), the
\* events emitted, the retries and the attaching of the watch, each with
\* its time
NoAdd ==
  [pc |-> "idle", watch |-> FALSE, load |-> FALSE, now |-> 0, retries |-> 0,
   trace |-> <<>>]
\* the watch of the archive: fileEvents tells that archive.fileEvents is
\* set, loading counts the watchArchive calls awaiting _loadPromise, open the
\* subscriptions made by archive.watch and not closed, events the changed
\* events raised and not yet handled; detached tells that an unwatchArchive
\* has ended since the last call of watchArchive
NoWatch ==
  [fileEvents |-> FALSE, loading |-> 0, open |-> 0, events |-> 0,
   detached |-> FALSE]

Event(a, ev) == <<[ev |-> ev, at |-> a.now]>>
If(cond, events) == IF cond THEN events ELSE <<>>

\* watchArchive up to its await of _loadPromise or, with none, to its end
watchArchive(w, load) ==
  IF w.fileEvents THEN [w EXCEPT !.detached = FALSE]
  ELSE IF load THEN [w EXCEPT !.loading = w.loading + 1, !.detached = FALSE]
  ELSE [w EXCEPT !.fileEvents = TRUE, !.open = w.open + 1, !.detached = FALSE]

\* watchArchive after its await: archive.watch opens a subscription, which
\* archive.fileEvents is set to
watchLoaded(w) ==
  [w EXCEPT !.fileEvents = TRUE, !.loading = w.loading - 1, !.open = w.open + 1]

\* unwatchArchive: the subscription that archive.fileEvents holds is closed
\* and archive.fileEvents set to null; on an archive never watched it does
\* nothing
unwatchArchive(w) ==
  IF w = NoWatch THEN w
  ELSE [w EXCEPT !.fileEvents = FALSE,
                 !.open = IF w.fileEvents THEN w.open - 1 ELSE w.open,
                 !.detached = TRUE]

\* indexArchive returned to addArchive (the then) or to the retry loop (the
\* break): source-found after a retry, and watchArchive if watch is set
AfterReturn(a, w) ==
  [a EXCEPT !.pc = "done",
            !.trace = a.trace \o Event(a, "returned")
                        \o If(a.pc = "retry", Event(a, "source-found"))
                        \o If(a.watch /\ ~w.fileEvents /\ ~a.load, Event(a, "watch"))]

\* onFailInitialIndex emitting source-missing wherever a TimeoutError is caught
AfterTimeoutMissingAgain(a) ==
  [a EXCEPT !.pc = "sleep",
            !.trace = a.trace \o Event(a, "timeout") \o Event(a, "source-missing")]

\* indexArchive threw a TimeoutError: onFailInitialIndex emits
\* source-missing and enters the loop, or the loop goes round; the timer is set
AfterTimeout(a) ==
  [a EXCEPT !.pc = "sleep",
            !.trace = a.trace \o Event(a, "timeout")
                        \o If(a.pc = "initial", Event(a, "source-missing"))]

\* onFailInitialIndex going round its loop on any error
AfterErrorRetrying(a) ==
  [a EXCEPT !.pc = "sleep",
            !.trace = a.trace \o Event(a, "error")
                        \o If(a.pc = "initial", Event(a, "source-error"))]

\* indexArchive threw another error: onFailInitialIndex emits source-error,
\* or returns from the loop
AfterError(a) ==
  [a EXCEPT !.pc = "done",
            !.trace = a.trace \o Event(a, "error")
                        \o If(a.pc = "initial", Event(a, "source-error"))]

\* the promise of invocation p settles with res
Settle(p, res) ==
  IF p # Adder THEN UNCHANGED <<add, watch>>
  ELSE /\ add' = IF res = "ok" THEN AfterReturn(add, watch)
                 ELSE IF res = "TimeoutError" THEN AfterTimeout(add)
                 ELSE AfterError(add)
       /\ watch' = IF res = "ok" /\ add.watch THEN watchArchive(watch, add.load)
                   ELSE watch

\* an exit that leaves the lock held
FinishHolding(p, res, ver) ==
  /\ proc' = [proc EXCEPT ![p] = Idle]
  /\ lock' = lock
  /\ lastRun' = Ended(res, ver)
  /\ Settle(p, res)

\* the finally block, and the promise settling with res
Finish(p, res, ver) ==
  /\ proc' = [proc EXCEPT ![p] = Idle]
  /\ lock' = Tail(lock)
  /\ lastRun' = Ended(res, ver)
  /\ Settle(p, res)

\* a call of indexArchive, by anyone (the api, a changed event, addArchive,
\* the retry loop): up to `await lock(...)`.  The invocations being alike, a
\* call takes the first free one
CallIndex(p) ==
  /\ proc[p].pc = "idle"
  /\ \A q \in Callers : q < p => proc[q].pc # "idle"
  /\ proc' = [proc EXCEPT ![p] = [Idle EXCEPT !.pc = "lock", !.behind = lock # <<>>]]
  /\ lock' = Append(lock, p)
  /\ UNCHANGED <<add, watch, tracked, log, dbOpen, meta, tables, rm, reset, lastRun>>

\* the lock is granted and the db is neither open nor being opened:
\* indexArchive returns
AcquireClosed(p) ==
  /\ proc[p].pc = "lock"
  /\ Head(lock) = p
  /\ ~dbOpen
  /\ proc' = [proc EXCEPT ![p] = Idle]
  /\ lock' = Tail(lock)
  /\ Settle(p, "ok")
  /\ UNCHANGED <<tracked, log, dbOpen, meta, tables, rm, reset, lastRun>>

\* indexArchive without the wait for the lock
AcquireOpenUnlocked(p) ==
  /\ proc[p].pc = "lock"
  /\ dbOpen
  /\ proc' = [proc EXCEPT ![p].pc = "fetch"]
  /\ UNCHANGED <<add, watch, tracked, log, dbOpen, meta, tables, lock, rm, reset, lastRun>>

\* the lock is granted and the db is open: the IndexMeta entry and getInfo
\* are awaited
AcquireOpen(p) ==
  /\ proc[p].pc = "lock"
  /\ Head(lock) = p
  /\ dbOpen
  /\ proc' = [proc EXCEPT ![p].pc = "fetch"]
  /\ UNCHANGED <<add, watch, tracked, log, dbOpen, meta, tables, lock, rm, reset, lastRun>>

Acquire(p) == AcquireClosed(p) \/ AcquireOpen(p)

\* the update at position i is taken up: unindexFile awaits its first del,
\* readAndIndexFile its readFile
StartUpdate(r, i) ==
  IF r.updates[i].type = "del"
  THEN [r EXCEPT !.pc = "del", !.i = i, !.k = NextTable(r.updates[i].path, 0),
                 !.record = 0, !.wrote = 0]
  ELSE [r EXCEPT !.pc = "read", !.i = i, !.k = 0, !.record = 0, !.wrote = 0]

\* getInfo rejects, and so does Promise.all: indexArchive throws
FetchRejects(p) ==
  /\ proc[p].pc = "fetch"
  /\ MayFail
  /\ \E e \in ArchiveErrors : Finish(p, e, Version)
  /\ UNCHANGED <<tracked, log, dbOpen, meta, tables, rm, reset>>

\* what db._indexMetaLevel.get(archive.url).catch(e => null) may give: the
\* entry, or null when there is none or when the get rejects
MetaReads == {meta} \cup (IF MayFail THEN {NoMeta} ELSE {})

\* indexArchive taking every IndexMeta entry for {version: 0}
VersionOfForgotten(got) == 0

\* indexMeta = indexMeta || {version: 0}
VersionOf(got) == IF got = NoMeta THEN 0 ELSE got

\* Promise.all resolves with got and the archive's version, and that version
\* has been processed: source-indexed is emitted and indexArchive returns
FetchReturns(p) ==
  /\ proc[p].pc = "fetch"
  /\ \E got \in MetaReads : VersionOf(got) >= Version
  /\ Finish(p, "ok", Version)
  /\ UNCHANGED <<tracked, log, dbOpen, meta, tables, rm, reset>>

\* Promise.all resolves and there are versions to process: the history from
\* indexMeta.version + 1 on is awaited
FetchGoesOn(p) ==
  /\ proc[p].pc = "fetch"
  /\ \E got \in MetaReads :
       /\ VersionOf(got) < Version
       /\ proc' = [proc EXCEPT ![p].pc = "history",
                               ![p].start = VersionOf(got) + 1,
                               ![p].ver = Version,
                               ![p].after = IF got = meta THEN lastRun ELSE "none"]
  /\ UNCHANGED <<add, watch, tracked, log, dbOpen, meta, tables, lock, rm, reset, lastRun>>

\* the version has been processed, and a listener of source-indexed throws
\* out of db.emit: indexArchive throws
FetchEmitThrows(p) ==
  /\ proc[p].pc = "fetch"
  /\ MayFail
  /\ \E got \in MetaReads : VersionOf(got) >= Version
  /\ Finish(p, "Error", Version)
  /\ UNCHANGED <<tracked, log, dbOpen, meta, tables, rm, reset>>

Fetch(p) == FetchRejects(p) \/ FetchReturns(p) \/ FetchEmitThrows(p) \/ FetchGoesOn(p)

\* archive.history rejects: indexArchive throws
HistoryRejects(p) ==
  /\ proc[p].pc = "history"
  /\ MayFail
  /\ \E e \in ArchiveErrors : Finish(p, e, proc[p].ver)
  /\ UNCHANGED <<tracked, log, dbOpen, meta, tables, rm, reset>>

\* the updates that scanArchiveHistoryForUpdates returns to invocation p
UpdatesOf(p) == scanArchiveHistoryForUpdates(history(proc[p].start, proc[p].ver + 1))

\* archive.history resolves and there is no update: applyUpdates returns,
\* source-indexed and indexes-updated are emitted, indexArchive returns
HistoryReturns(p) ==
  /\ proc[p].pc = "history"
  /\ UpdatesOf(p) = <<>>
  /\ Finish(p, "ok", proc[p].ver)
  /\ UNCHANGED <<tracked, log, dbOpen, meta, tables, rm, reset>>

\* archive.history resolves and applyUpdates takes up the first update
HistoryGoesOn(p) ==
  /\ proc[p].pc = "history"
  /\ UpdatesOf(p) # <<>>
  /\ proc' = [proc EXCEPT ![p] = StartUpdate([proc[p] EXCEPT !.updates = UpdatesOf(p)], 1)]
  /\ UNCHANGED <<add, watch, tracked, log, dbOpen, meta, tables, lock, rm, reset, lastRun>>

\* there is no update, and a listener of source-indexed or of
\* indexes-updated throws out of db.emit: indexArchive throws
HistoryEmitThrows(p) ==
  /\ proc[p].pc = "history"
  /\ MayFail
  /\ UpdatesOf(p) = <<>>
  /\ Finish(p, "Error", proc[p].ver)
  /\ UNCHANGED <<tracked, log, dbOpen, meta, tables, rm, reset>>

History(p) ==
  HistoryRejects(p) \/ HistoryReturns(p) \/ HistoryEmitThrows(p) \/ HistoryGoesOn(p)

\* the update that applyUpdates is at
Update(p) == proc[p].updates[proc[p].i]

\* a readAndIndexFile whose catch logs without rethrowing, as unindexFile's
\* does: applyUpdates goes on to the IndexMeta update of the entry
ReadFailsSwallowed(p) ==
  /\ proc[p].pc = "read"
  /\ MayFail \/ JSONParse(readFile(Update(p).path, Update(p).version)) = ParseError
  /\ proc' = [proc EXCEPT ![p].pc = "meta"]
  /\ UNCHANGED <<add, watch, tracked, log, dbOpen, meta, tables, lock, rm, reset, lastRun>>

\* readAndIndexFile: readFile at the update's version rejects, or JSON.parse
\* throws; the catch logs and rethrows, and indexArchive throws
ReadFails(p) ==
  /\ proc[p].pc = "read"
  /\ \/ MayFail /\ \E e \in ArchiveErrors : Finish(p, e, proc[p].ver)
     \/ /\ JSONParse(readFile(Update(p).path, Update(p).version)) = ParseError
        /\ Finish(p, "Error", proc[p].ver)
  /\ UNCHANGED <<tracked, log, dbOpen, meta, tables, rm, reset>>

\* readFile resolves and the text parses: the loop over the tables comes to
\* the first table of the file
ReadParses(p) ==
  /\ proc[p].pc = "read"
  /\ JSONParse(readFile(Update(p).path, Update(p).version)) # ParseError
  /\ proc' = [proc EXCEPT ![p].pc = "write",
                          ![p].record = JSONParse(readFile(Update(p).path, Update(p).version)),
                          ![p].k = NextTable(Update(p).path, 0)]
  /\ UNCHANGED <<add, watch, tracked, log, dbOpen, meta, tables, lock, rm, reset, lastRun>>

Read(p) == ReadFails(p) \/ ReadParses(p)

\* readAndIndexFile at table k: the put (of a valid record) or the del (of
\* an invalid one) rejects, and indexArchive throws
WriteRejects(p) ==
  /\ proc[p].pc = "write"
  /\ MayFail
  /\ Finish(p, "Error", proc[p].ver)
  /\ UNCHANGED <<tracked, log, dbOpen, meta, tables, rm, reset>>

\* the record variable after table k: the preprocessed record if the record
\* was valid
Preprocessed(k, record) ==
  IF IsValid(k, record) THEN Preprocess(k, record) ELSE record

\* what table k stores for the record variable at its turn
Stored(k, record) ==
  IF IsValid(k, record) THEN Preprocess(k, record) ELSE NoRec

\* readAndIndexFile at table k: the put or the del resolves, put-record or
\* del-record is emitted, and the loop goes on to the next table of the file
\* or returns to applyUpdates, which awaits the IndexMeta update
WriteResolves(p) ==
  /\ proc[p].pc = "write"
  /\ tables' = [tables EXCEPT ![proc[p].k][Update(p).path] = Stored(proc[p].k, proc[p].record)]
  /\ proc' = [proc EXCEPT ![p].record = Preprocessed(proc[p].k, proc[p].record),
                          ![p].emitted = proc[p].emitted + 1,
                          ![p].wrote = proc[p].wrote +
                                       (IF IsValid(proc[p].k, proc[p].record) THEN 1 ELSE 0),
                          ![p].behind = FALSE, ![p].after = "none",
                          ![p].k = NextTable(Update(p).path, proc[p].k),
                          ![p].pc = IF NextTable(Update(p).path, proc[p].k) = 0
                                    THEN "meta" ELSE "write"]
  /\ UNCHANGED <<add, watch, tracked, log, dbOpen, meta, lock, rm, reset, lastRun>>

Write(p) == WriteRejects(p) \/ WriteResolves(p)

\* unindexFile at table k: the del rejects; the catch around the loop logs,
\* unindexFile returns and applyUpdates awaits the IndexMeta update
DelRejects(p) ==
  /\ proc[p].pc = "del"
  /\ MayFail
  /\ proc' = [proc EXCEPT ![p].k = 0, ![p].pc = "meta",
                          ![p].behind = FALSE, ![p].after = "none"]
  /\ UNCHANGED <<add, watch, tracked, log, dbOpen, meta, tables, lock, rm, reset, lastRun>>

\* unindexFile at table k: the del resolves, del-record is emitted, and the
\* loop goes on to the next table of the file or returns to applyUpdates
DelResolves(p) ==
  /\ proc[p].pc = "del"
  /\ tables' = [tables EXCEPT ![proc[p].k][Update(p).path] = NoRec]
  /\ proc' = [proc EXCEPT ![p].emitted = proc[p].emitted + 1,
                          ![p].behind = FALSE, ![p].after = "none",
                          ![p].k = NextTable(Update(p).path, proc[p].k),
                          ![p].pc = IF NextTable(Update(p).path, proc[p].k) = 0
                                    THEN "meta" ELSE "del"]
  /\ UNCHANGED <<add, watch, tracked, log, dbOpen, meta, lock, rm, reset, lastRun>>

Del(p) == DelRejects(p) \/ DelResolves(p)

\* applyUpdates: LevelUtil.update of the IndexMeta entry rejects, and
\* indexArchive throws
MetaRejects(p) ==
  /\ proc[p].pc = "meta"
  /\ MayFail
  /\ Finish(p, "Error", proc[p].ver)
  /\ UNCHANGED <<tracked, log, dbOpen, meta, tables, rm, reset>>

\* LevelUtil.update resolves: the entry holds the update's version, and
\* applyUpdates takes up the next update
MetaGoesOn(p) ==
  /\ proc[p].pc = "meta"
  /\ proc[p].i < Len(proc[p].updates)
  /\ meta' = Update(p).version
  /\ proc' = [proc EXCEPT ![p] = StartUpdate(proc[p], proc[p].i + 1)]
  /\ UNCHANGED <<add, watch, tracked, log, dbOpen, tables, lock, rm, reset, lastRun>>

\* LevelUtil.update resolves for the last update: source-indexed and
\* indexes-updated are emitted and indexArchive returns
MetaReturns(p) ==
  /\ proc[p].pc = "meta"
  /\ proc[p].i = Len(proc[p].updates)
  /\ meta' = Update(p).version
  /\ Finish(p, "ok", proc[p].ver)
  /\ UNCHANGED <<tracked, log, dbOpen, tables, rm, reset>>

\* LevelUtil.update resolves for the last update, and a listener of
\* source-indexed or of indexes-updated throws out of db.emit: indexArchive
\* throws
MetaEmitThrows(p) ==
  /\ proc[p].pc = "meta"
  /\ MayFail
  /\ proc[p].i = Len(proc[p].updates)
  /\ meta' = Update(p).version
  /\ Finish(p, "Error", proc[p].ver)
  /\ UNCHANGED <<tracked, log, dbOpen, tables, rm, reset>>

Meta(p) == MetaRejects(p) \/ MetaGoesOn(p) \/ MetaReturns(p) \/ MetaEmitThrows(p)

(***************************************************************************)
(* removeArchive and unindexArchive.                                       *)
(***************************************************************************)
\* the lock waiter that is the unindexArchive invocation
Remover == NumCallers + 1

\* table.listRecordFiles(archive): the files of the archive, as it is now,
\* that are record files of table t
listRecordFiles(t) == {path \in Paths : isRecordFile(t, path) /\ Exists(path, Version)}

\* the flattened lists of all the tables: each record file with its table
scanArchiveForRecords ==
  UNION {{<<t, path>> : path \in listRecordFiles(t)} : t \in 1..Len(Tables)}

\* a call of removeArchive: unindexArchive up to `await lock(...)`
CallRemove ==
  /\ rm.pc = "idle"
  /\ rm' = [rm EXCEPT !.pc = "lock"]
  /\ lock' = Append(lock, Remover)
  /\ UNCHANGED <<add, watch, tracked, log, dbOpen, meta, tables, proc, reset, lastRun>>

\* the lock is granted; scanArchiveForRecords is awaited
RemoveAcquire ==
  /\ rm.pc = "lock"
  /\ Head(lock) = Remover
  /\ rm' = [rm EXCEPT !.pc = "scan"]
  /\ UNCHANGED <<add, watch, tracked, log, dbOpen, meta, tables, lock, proc, reset, lastRun>>

\* the record files are listed and a del is issued for each; with none,
\* the del of the IndexMeta entry is awaited
RemoveScan ==
  /\ rm.pc = "scan"
  /\ rm' = [rm EXCEPT !.pc = IF scanArchiveForRecords = {} THEN "meta" ELSE "dels",
                      !.dels = scanArchiveForRecords]
  /\ UNCHANGED <<add, watch, tracked, log, dbOpen, meta, tables, lock, proc, reset, lastRun>>

\* Promise.all of the dels resolves, or rejects because some of the dels
\* (failed) rejected: unindexArchive then releases the lock and throws
RemoveDels ==
  /\ rm.pc = "dels"
  /\ \E failed \in SUBSET rm.dels :
       /\ failed # {} => MayFail
       /\ tables' = [t \in 1..Len(Tables) |-> [path \in Paths |->
                       IF <<t, path>> \in rm.dels \ failed THEN NoRec ELSE tables[t][path]]]
       /\ rm' = [rm EXCEPT !.pc = IF failed = {} THEN "meta" ELSE "idle", !.dels = {}]
       /\ lock' = IF failed = {} THEN lock ELSE Tail(lock)
  /\ lastRun' = "none"
  /\ UNCHANGED <<add, watch, tracked, log, dbOpen, meta, proc, reset>>

\* the del of the IndexMeta entry resolves: the lock is released,
\* unindexArchive returns and removeArchive calls unwatchArchive, which
\* closes archive.fileEvents, if set, and sets it to null; r is the removal
\* from then on
RemoveMetaResolvesAs(r) ==
  /\ rm.pc = "meta"
  /\ meta' = NoMeta
  /\ lastRun' = "none"
  /\ rm' = r
  /\ lock' = Tail(lock)
  /\ watch' = unwatchArchive(watch)
  /\ UNCHANGED <<add, tracked, log, dbOpen, tables, proc, reset>>

RemoveMetaResolves == RemoveMetaResolvesAs([rm EXCEPT !.pc = "idle"])

\* the same, with the history variable rm.removed recording that
\* removeArchive has returned
RemoveMetaResolvesNoted ==
  RemoveMetaResolvesAs([rm EXCEPT !.pc = "idle", !.removed = TRUE])

\* the del of the IndexMeta entry rejects: the lock is released and
\* removeArchive throws
RemoveMetaRejects ==
  /\ rm.pc = "meta"
  /\ MayFail
  /\ rm' = [rm EXCEPT !.pc = "idle"]
  /\ lock' = Tail(lock)
  /\ UNCHANGED <<add, watch, tracked, log, dbOpen, meta, tables, proc, reset, lastRun>>

RemoveMeta == RemoveMetaResolves \/ RemoveMetaRejects

(***************************************************************************)
(* resetOutdatedIndexes.                                                   *)
(***************************************************************************)
\* the lists of tables to rebuild it may be called with
Rebuilds == {<<>>, <<"t1">>, <<"t1", "t2">>}

\* a write of resetOutdatedIndexes, which holds no lock, as the runs see it
Interfered == IF lock # <<>> THEN "tainted" ELSE "none"

\* a call: with nothing to rebuild it returns false; else the clear of the
\* first table is awaited
CallReset ==
  /\ reset.pc = "idle"
  /\ \E neededRebuilds \in Rebuilds :
       reset' = IF Len(neededRebuilds) = 0 THEN reset
                ELSE [reset EXCEPT !.pc = "clear", !.i = 1]
  /\ UNCHANGED <<add, watch, tracked, log, dbOpen, meta, tables, lock, proc, rm, lastRun>>

\* LevelUtil.clear(table.level) of table i resolves; after the last table,
\* LevelUtil.each over the IndexMeta entries is awaited
ResetClear ==
  /\ reset.pc = "clear"
  /\ tables' = [tables EXCEPT ![reset.i] = [path \in Paths |-> NoRec]]
  /\ reset' = IF reset.i < Len(Tables) THEN [reset EXCEPT !.i = reset.i + 1]
              ELSE [reset EXCEPT !.pc = "each", !.i = 0]
  /\ lastRun' = Interfered
  /\ UNCHANGED <<add, watch, tracked, log, dbOpen, meta, lock, proc, rm>>

\* LevelUtil.each and the puts of version 0 that it issued, one for every
\* IndexMeta entry, resolve; resetOutdatedIndexes returns true
ResetEach ==
  /\ reset.pc = "each"
  /\ meta' = IF meta = NoMeta THEN NoMeta ELSE 0
  /\ reset' = [reset EXCEPT !.pc = "idle"]
  /\ lastRun' = Interfered
  /\ UNCHANGED <<add, watch, tracked, log, dbOpen, tables, lock, proc, rm>>

(***************************************************************************)
(* addArchive and onFailInitialIndex.                                      *)
(***************************************************************************)
\* indexArchive is called for addArchive: up to `await lock(...)`
Called ==
  /\ proc' = [proc EXCEPT ![Adder] = [Idle EXCEPT !.pc = "lock", !.behind = lock # <<>>]]
  /\ lock' = Append(lock, Adder)

\* a call of addArchive with {watch}: up to `await archive.getInfo()`
CallAdd ==
  /\ add.pc = "idle"
  /\ \E w, load \in BOOLEAN : add' = [NoAdd EXCEPT !.pc = "info", !.watch = w, !.load = load]
  /\ UNCHANGED <<log, dbOpen, meta, tables, lock, proc, rm, reset, lastRun, watch, tracked>>

\* getInfo resolves: isWritable is stored and indexArchive is called
AddInfoResolves ==
  /\ add.pc = "info"
  /\ add' = [add EXCEPT !.pc = "initial"]
  /\ Called
  /\ UNCHANGED <<log, dbOpen, meta, tables, rm, reset, lastRun, watch, tracked>>

\* getInfo rejects: addArchive throws
AddInfoRejects ==
  /\ add.pc = "info"
  /\ MayFail
  /\ add' = [add EXCEPT !.pc = "done"]
  /\ UNCHANGED <<log, dbOpen, meta, tables, lock, proc, rm, reset, lastRun, watch, tracked>>

AddInfo == AddInfoResolves \/ AddInfoRejects

\* the timer fires, and the db is closed or the archive no longer a source:
\* onFailInitialIndex returns
TimerStops ==
  /\ add.pc = "sleep"
  /\ ~dbOpen \/ ~tracked
  /\ add' = [add EXCEPT !.pc = "done", !.now = add.now + RetryInterval]
  /\ UNCHANGED <<log, dbOpen, meta, tables, lock, proc, rm, reset, lastRun, watch, tracked>>

\* the timer fires and indexArchive is called again
TimerRetries ==
  /\ add.pc = "sleep"
  /\ dbOpen /\ tracked
  /\ add.retries < MaxRetries
  /\ add' = [add EXCEPT !.pc = "retry", !.now = add.now + RetryInterval,
                        !.retries = add.retries + 1,
                        !.trace = add.trace \o <<[ev |-> "retry", at |-> add.now + RetryInterval]>>]
  /\ Called
  /\ UNCHANGED <<log, dbOpen, meta, tables, rm, reset, lastRun, watch, tracked>>

TimerFires == TimerStops \/ TimerRetries

\* _loadPromise resolves for a watchArchive call, which sets
\* archive.fileEvents and adds its listeners
WatchLoaded ==
  /\ watch.loading > 0
  /\ watch' = watchLoaded(watch)
  /\ add' = IF add.pc = "idle" THEN add
            ELSE [add EXCEPT !.trace = add.trace \o Event(add, "watch")]
  /\ UNCHANGED <<log, dbOpen, meta, tables, lock, proc, rm, reset, lastRun, tracked>>

\* a call of watchArchive, on an archive with or without a _loadPromise (with
\* one if an earlier call is awaiting it)
CallWatch ==
  /\ watch.loading + watch.open < MaxWatching
  /\ \E load \in BOOLEAN :
       /\ watch.loading > 0 => load
       /\ watch' = watchArchive(watch, load)
  /\ UNCHANGED <<log, dbOpen, meta, tables, lock, proc, rm, reset, lastRun, add, tracked>>

\* a call of unwatchArchive
CallUnwatch ==
  /\ watch' = unwatchArchive(watch)
  /\ UNCHANGED <<log, dbOpen, meta, tables, lock, proc, rm, reset, lastRun, add, tracked>>

(***************************************************************************)
(* The environment.                                                        *)
(***************************************************************************)
\* the archive is taken off the db's sources
Untrack ==
  /\ tracked
  /\ tracked' = FALSE
  /\ UNCHANGED <<log, dbOpen, meta, tables, lock, proc, rm, reset, lastRun, add, watch>>

\* the archive's owner writes a change
ArchiveWrite ==
  /\ Version < MaxVersion
  /\ \E c \in Changes : log' = Append(log, c)
  /\ lastRun' = "none"
  /\ UNCHANGED <<add, watch, tracked, dbOpen, meta, tables, lock, proc, rm, reset>>

\* the database is closed
CloseDb ==
  /\ dbOpen
  /\ dbOpen' = FALSE
  /\ UNCHANGED <<add, watch, tracked, log, meta, tables, lock, proc, rm, reset, lastRun>>

(***************************************************************************)
(* Specifications.                                                         *)
(***************************************************************************)
Init ==
  /\ log = <<>>
  /\ dbOpen = TRUE
  /\ meta = NoMeta
  /\ tables = [t \in 1..Len(Tables) |-> [path \in Paths |-> NoRec]]
  /\ lock = <<>>
  /\ proc = [p \in Callers \cup {Adder} |-> Idle]
  /\ rm = [pc |-> "idle", dels |-> {}, removed |-> FALSE]
  /\ reset = [pc |-> "idle", i |-> 0]
  /\ lastRun = "none"
  /\ add = NoAdd
  /\ watch = NoWatch
  /\ tracked = TRUE

\* the steps of an invocation once called
Run(p) ==
  \/ Acquire(p)
  \/ Fetch(p)
  \/ History(p)
  \/ Read(p)
  \/ Write(p)
  \/ Del(p)
  \/ Meta(p)

Pass(p) == CallIndex(p) \/ Run(p)

NextSync ==
  \/ ArchiveWrite
  \/ CloseDb
  \/ \E p \in Callers : Pass(p)

SpecSync == Init /\ [][NextSync]_vars

\* addArchive, its indexArchive calls and its retries, with the archive
\* being written to, the db closed and the archive taken off the sources
NextAdd ==
  \/ CallAdd
  \/ AddInfo
  \/ Run(Adder)
  \/ TimerFires
  \/ WatchLoaded
  \/ ArchiveWrite
  \/ CloseDb
  \/ Untrack

SpecAdd == Init /\ [][NextAdd]_vars

(***************************************************************************)
(* scanArchiveHistoryForUpdates on its own, over the archives of up to     *)
(* MaxHistory changes.                                                     *)
(***************************************************************************)
\* the archives of up to n changes
RECURSIVE Archives(_)
Archives(n) ==
  IF n = 0 THEN {<<>>}
  ELSE LET A == Archives(n - 1)
       IN A \cup UNION {{Append(l, c) : c \in ChangesTo(l)} : l \in {a \in A : Len(a) = n - 1}}

InitScan ==
  /\ log \in Archives(MaxHistory)
  /\ dbOpen = TRUE
  /\ meta = NoMeta
  /\ tables = [t \in 1..Len(Tables) |-> [path \in Paths |-> NoRec]]
  /\ lock = <<>>
  /\ proc = [p \in Callers \cup {Adder} |-> Idle]
  /\ rm = [pc |-> "idle", dels |-> {}, removed |-> FALSE]
  /\ reset = [pc |-> "idle", i |-> 0]
  /\ lastRun = "none"
  /\ add = NoAdd
  /\ watch = NoWatch
  /\ tracked = TRUE

\* scanArchiveHistoryForUpdates is called with {start, end} and resolves
\* with the updates
CallScan ==
  /\ proc[1].pc = "idle"
  /\ \E start \in 1..(Version + 1) : \E end \in start..(Version + 1) :
       proc' = [proc EXCEPT ![1] = [Idle EXCEPT
                  !.pc = "scanned", !.start = start, !.ver = end - 1,
                  !.updates = scanArchiveHistoryForUpdates(history(start, end))]]
  /\ UNCHANGED <<add, watch, tracked, log, dbOpen, meta, tables, lock, rm, reset, lastRun>>

\* the caller drops the updates
DropScan ==
  /\ proc[1].pc = "scanned"
  /\ proc' = [proc EXCEPT ![1] = Idle]
  /\ UNCHANGED <<add, watch, tracked, log, dbOpen, meta, tables, lock, rm, reset, lastRun>>

NextScan == CallScan \/ DropScan

SpecScan == InitScan /\ [][NextScan]_vars

Remove ==
  \/ CallRemove
  \/ RemoveAcquire
  \/ RemoveScan
  \/ RemoveDels
  \/ RemoveMeta

Reset ==
  \/ CallReset
  \/ ResetClear
  \/ ResetEach

Next ==
  \/ NextSync
  \/ Remove
  \/ Reset

Spec == Init /\ [][Next]_vars

\* indexArchive called at will and removeArchive, its completion recorded
NextRemove ==
  \/ NextSync
  \/ CallRemove
  \/ RemoveAcquire
  \/ RemoveScan
  \/ RemoveDels
  \/ RemoveMetaResolvesNoted
  \/ RemoveMetaRejects

SpecRemove == Init /\ [][NextRemove]_vars

\* watchArchive, unwatchArchive and removeArchive called at will on an
\* archive that is being written to
NextWatch ==
  \/ CallWatch
  \/ WatchLoaded
  \/ CallUnwatch
  \/ Remove
  \/ ArchiveWrite

SpecWatch == Init /\ [][NextWatch]_vars

(***************************************************************************)
(* A watched archive whose changes raise changed events, with no call      *)
(* failing.                                                                *)
(***************************************************************************)
\* watchArchive has attached its listeners to the archive of an open db;
\* indexArchive has just been called as well, or has not
InitLive ==
  /\ log = <<>>
  /\ dbOpen = TRUE
  /\ meta = NoMeta
  /\ tables = [t \in 1..Len(Tables) |-> [path \in Paths |-> NoRec]]
  /\ \E called \in BOOLEAN :
       /\ lock = IF called THEN <<1>> ELSE <<>>
       /\ proc = [p \in Callers \cup {Adder} |->
                    IF called /\ p = 1 THEN [Idle EXCEPT !.pc = "lock"] ELSE Idle]
  /\ rm = [pc |-> "idle", dels |-> {}, removed |-> FALSE]
  /\ reset = [pc |-> "idle", i |-> 0]
  /\ lastRun = "none"
  /\ add = NoAdd
  /\ watch = watchArchive(NoWatch, FALSE)
  /\ tracked = TRUE

\* the archive's owner writes a change whose file parses, and the
\* subscriptions each raise a changed event if the path matches the patterns
\* given to archive.watch
ChangeWatched ==
  /\ Version < MaxVersion
  /\ \E c \in Changes :
       /\ c.type = "put" => JSONParse(c.text) # ParseError
       /\ log' = Append(log, c)
       /\ watch' = [watch EXCEPT !.events = watch.events +
                                   (IF anymatch(c.path) THEN watch.open ELSE 0)]
  /\ lastRun' = "none"
  /\ UNCHANGED <<add, tracked, dbOpen, meta, tables, lock, proc, rm, reset>>

\* a changed event is handled: the listener calls indexArchive
Changed ==
  /\ watch.events > 0
  /\ watch' = [watch EXCEPT !.events = watch.events - 1]
  /\ \E p \in Callers :
       /\ proc[p].pc = "idle"
       /\ \A q \in Callers : q < p => proc[q].pc # "idle"
       /\ proc' = [proc EXCEPT ![p] = [Idle EXCEPT !.pc = "lock", !.behind = lock # <<>>]]
       /\ lock' = Append(lock, p)
  /\ UNCHANGED <<add, tracked, log, dbOpen, meta, tables, rm, reset, lastRun>>

\* the steps of an invocation none of whose awaited calls rejects and none
\* of whose listeners throws
RunLive(p) ==
  \/ AcquireOpen(p)
  \/ FetchReturns(p)
  \/ FetchGoesOn(p)
  \/ HistoryReturns(p)
  \/ HistoryGoesOn(p)
  \/ ReadParses(p)
  \/ WriteResolves(p)
  \/ DelResolves(p)
  \/ MetaGoesOn(p)
  \/ MetaReturns(p)

NextLive ==
  \/ ChangeWatched
  \/ Changed
  \/ \E p \in Callers : RunLive(p)

\* every raised event is handled and every awaited call settles
SpecLive ==
  /\ InitLive /\ [][NextLive]_vars
  /\ WF_vars(Changed)
  /\ \A p \in Callers : WF_vars(RunLive(p))

(***************************************************************************)
(* The properties.                                                         *)
(***************************************************************************)
Invocations == DOMAIN proc

\* the version that the IndexMeta entry stands for (0 when there is none)
IndexVersion(m) == VersionOf(m)

\* indexArchive returns without throwing, the db being open, having read
\* version v from getInfo
ReturnsAt(p, v) ==
  \/ FetchReturns(p) /\ v = Version
  \/ (HistoryReturns(p) \/ MetaReturns(p)) /\ v = proc[p].ver

\* the record that table t is to hold for path with the archive at version
\* v: the file's content, validated and preprocessed by t alone
Expected(t, path, v) ==
  IF isRecordFile(t, path) /\ Exists(path, v)
       /\ JSONParse(readFile(path, v)) # ParseError
       /\ IsValid(t, JSONParse(readFile(path, v)))
  THEN Preprocess(t, JSONParse(readFile(path, v)))
  ELSE NoRec

\* the tables tbls hold exactly the records of the archive at version v
Reflects(tbls, v) ==
  \A t \in 1..Len(Tables) : \A path \in Paths : tbls[t][path] = Expected(t, path, v)

\* C1: whenever indexArchive completes without throwing (db open), the stored
\* IndexMeta version equals the version that getInfo returned in that pass.
C1_CursorIsVersion ==
  [][\A p \in Invocations : \A v \in 0..Version :
       ReturnsAt(p, v) => IndexVersion(meta') = v]_vars

\* C2: after a successful pass to version v every table holds exactly the
\* records that the files' contents at v determine: the preprocessed content
\* of each valid record file, and nothing for a deleted or invalid one.
C2_TablesReflectVersion ==
  [][\A p \in Invocations : \A v \in 0..Version :
       ReturnsAt(p, v) => Reflects(tables', v)]_vars

\* the record variable of readAndIndexFile when its loop reaches table k
RECURSIVE RecordAt(_, _, _)
RecordAt(path, k, record) ==
  IF k = 1 THEN record
  ELSE IF isRecordFile(k - 1, path)
       THEN Preprocessed(k - 1, RecordAt(path, k - 1, record))
       ELSE RecordAt(path, k - 1, record)

\* what table t holds for path once the change at version c has been applied:
\* nothing after unindexFile, what readAndIndexFile stores otherwise
Applied(t, path, c) ==
  IF log[c].type = "del" THEN NoRec
  ELSE Stored(t, RecordAt(path, t, JSONParse(log[c].text)))

\* the change at version c can be applied: readAndIndexFile can parse the file
Appliable(c) == log[c].type = "del" \/ JSONParse(log[c].text) # ParseError

\* C4: in every reachable state, every table-matching change with a version
\* up to the stored cursor, net of later changes to the same path, has been
\* applied to the tables.
C4_CursorCoversOnlyApplied ==
  meta # NoMeta =>
    \A path \in Paths : \A t \in 1..Len(Tables) :
      (isRecordFile(t, path) /\ LastChange(path, Version) \in 1..meta) =>
        /\ Appliable(LastChange(path, Version))
        /\ tables[t][path] = Applied(t, path, LastChange(path, Version))

\* C5: the stored IndexMeta version never decreases, except that
\* resetOutdatedIndexes sets it to 0 and removal of the source deletes it.
C5_CursorNeverDecreases ==
  [][(meta # NoMeta /\ (meta' = NoMeta \/ meta' < meta)) =>
       (ResetEach \/ RemoveMetaResolves)]_vars

\* no table holds a record
NoRecords(tbls) == \A t \in 1..Len(Tables) : \A path \in Paths : tbls[t][path] = NoRec

C10_ResetLeavesEmpty ==
  [][/\ ResetEach => (NoRecords(tables') /\ meta' \in {NoMeta, 0})
     /\ (CallReset /\ reset' = reset) => UNCHANGED <<meta, tables>>]_vars

\* invocation p is inside the locked section
InSection(p) == proc[p].pc \in {"fetch", "history", "read", "write", "del", "meta"}

\* at most one invocation is inside the locked section, and it is the one
\* the lock was granted to
Serialized ==
  /\ \A p, q \in Invocations : (InSection(p) /\ InSection(q)) => p = q
  /\ \A p \in Invocations : InSection(p) => (lock # <<>> /\ Head(lock) = p)

\* invocation p takes a step: it makes no table put or del and no IndexMeta
\* write, and emits no put-record or del-record
NoWrite(p) ==
  proc'[p] # proc[p] =>
    (tables' = tables /\ meta' = meta /\ proc'[p].emitted = 0)

\* a step that writes a record or the cursor, if an invocation's, is that of
\* the invocation the lock was granted to
WritesInSection ==
  \A p \in Invocations :
    (proc'[p] # proc[p] /\ (tables' # tables \/ meta' # meta)) =>
      (InSection(p) /\ Head(lock) = p)

SecondRunIdle(p, ends) ==
  ((proc[p].pc = "fetch" /\ lastRun \in ends) \/
   (InSection(p) /\ proc[p].pc # "fetch" /\ proc[p].after \in ends)) => NoWrite(p)

ScanResult(h, us) ==
  /\ \A i \in 1..Len(us) :
       /\ anymatch(us[i].path)
       /\ \E j \in 1..Len(h) : h[j] = us[i]
       /\ \A j \in 1..Len(h) : h[j].path = us[i].path => h[j].version <= us[i].version
  /\ \A j \in 1..Len(h) : anymatch(h[j].path) =>
       Cardinality({i \in 1..Len(us) : us[i].path = h[j].path}) = 1
  /\ \A i, j \in 1..Len(us) : i < j => us[i].version < us[j].version

\* the history of the example, and the updates it is to give
ExampleHistory ==
  <<[path |-> "a", version |-> 1, type |-> "put"],
    [path |-> "a", version |-> 3, type |-> "put"],
    [path |-> "b", version |-> 2, type |-> "del"]>>
ExampleUpdates ==
  <<[path |-> "b", version |-> 2, type |-> "del"],
    [path |-> "a", version |-> 3, type |-> "put"]>>

\* C8: scanArchiveHistoryForUpdates returns exactly one entry per distinct
\* matching path, the change with the highest version for that path in the
\* range, in ascending order of version and with no entry for a non-matching
\* path; the example history gives the example updates; and the scan writes
\* no record and no IndexMeta entry.
C8_ScanLatestPerPath ==
  /\ proc[1].pc = "scanned" =>
       ScanResult(history(proc[1].start, proc[1].ver + 1), proc[1].updates)
  /\ scanArchiveHistoryForUpdates(ExampleHistory) = ExampleUpdates
  /\ NoRecords(tables) /\ meta = NoMeta

\* a scan of three changes, two of them to one path with another path's
\* change in between, has returned the later two in order of version
C8_Witness ==
  /\ proc[1].pc = "scanned"
  /\ Len(history(proc[1].start, proc[1].ver + 1)) = 3
  /\ Len(proc[1].updates) = 2
  /\ proc[1].updates[1].version = 2 /\ proc[1].updates[2].version = 3
  /\ history(proc[1].start, proc[1].ver + 1)[1].path = proc[1].updates[2].path

\* what an observer sees of addArchive: the events, the retries, the watch
Observable(e) == e.ev \in {"source-missing", "retry", "source-found", "watch", "source-error"}
Observed == SelectSeq(add.trace, Observable)

\* the number of entries ev of the trace
Count(ev) == Cardinality({i \in 1..Len(add.trace) : add.trace[i].ev = ev})

\* the initial indexArchive failed with a timeout, and no indexArchive since
\* has failed otherwise
MissingThenTimeouts ==
  /\ add.trace # <<>>
  /\ add.trace[1].ev = "timeout"
  /\ Count("error") = 0

\* C9: for addArchive with watch requested, when the initial pass and then
\* N >= 0 retries fail with a timeout and the next retry succeeds, what is
\* observed is source-missing once, then the retries 30 seconds apart, then
\* source-found once, and then the watch being attached; no watch is attached
\* and no source-found is emitted before an indexArchive has returned.
C9_MissingRetriesFoundWatch ==
  MissingThenTimeouts =>
    LET obs == Observed
        r == Count("retry")
    IN /\ obs[1].ev = "source-missing"
       /\ \A i \in 2..(r + 1) :
            obs[i].ev = "retry" /\ obs[i].at = obs[1].at + (i - 1) * RetryInterval
       /\ Len(obs) <= r + 3
       /\ Len(obs) >= r + 2 <=> Count("returned") = 1
       /\ Len(obs) >= r + 2 => (obs[r + 2].ev = "source-found" /\ Count("timeout") = r)
       /\ Len(obs) >= r + 3 => (obs[r + 3].ev = "watch" /\ add.watch)
       /\ Count("returned") = 0 => (~watch.fileEvents /\ watch.loading = 0)
       /\ (Count("returned") = 1 /\ add.watch) =>
            (watch.loading = 1 \/ (watch.fileEvents /\ Len(obs) = r + 3))

\* the initial pass and one retry have timed out, the second retry has
\* indexed the archive's records, source-found has been emitted and the
\* watch is attached
C9_Witness ==
  /\ MissingThenTimeouts
  /\ Count("timeout") = 2 /\ Count("retry") = 2
  /\ Count("source-found") = 1
  /\ Len(add.trace) > 0 /\ add.trace[Len(add.trace)].ev = "watch"
  /\ watch.fileEvents
  /\ ~NoRecords(tables) /\ meta = Version

\* the number of times waiter w is in the lock's queue
Holds(w) == Cardinality({i \in 1..Len(lock) : lock[i] = w})

\* the lock's queue holds the invocations that are waiting for the lock or
\* inside the locked section, once each, and no invocation that has finished
LockOfTheUnfinished ==
  /\ \A p \in Invocations : Holds(p) = IF proc[p].pc = "idle" THEN 0 ELSE 1
  /\ Holds(Remover) = IF rm.pc = "idle" THEN 0 ELSE 1

\* an invocation that finishes holds the lock and gives it to the next waiter
ReleasesOnExit ==
  /\ \A p \in Invocations :
       (proc[p].pc # "idle" /\ proc'[p].pc = "idle") =>
         (Head(lock) = p /\ lock' = Tail(lock))
  /\ (rm.pc \notin {"idle", "lock"} /\ rm'.pc = "idle") =>
       (Head(lock) = Remover /\ lock' = Tail(lock))

\* C11: every indexArchive and unindexArchive invocation that acquired the
\* lock releases it exactly once before it finishes, on every exit path (the
\* early returns, normal completion, an error of getInfo, history, a read, a
\* parse, a storage write or an event emission): the lock is never left held
\* by a finished invocation.
C11_LockReleasedOnEveryExit ==
  []LockOfTheUnfinished /\ [][ReleasesOnExit]_vars

\* a run has thrown after indexing a record, every invocation has finished
\* and the lock is free
C11_Witness ==
  /\ lastRun = "failed" /\ lock = <<>>
  /\ \A p \in Invocations : proc[p].pc = "idle"
  /\ rm.pc = "idle" /\ ~NoRecords(tables)

\* C12: every write to the IndexMeta entry and to a table, by any operation,
\* is made by the holder of the source's lock.
C12_WritesUnderLock ==
  [][(tables' # tables \/ meta' # meta) =>
       /\ lock # <<>>
       /\ \/ \E p \in Invocations : proc'[p] # proc[p] /\ Head(lock) = p
          \/ rm' # rm /\ Head(lock) = Remover]_vars

\* the step in which readAndIndexFile of invocation p fails: the read does
\* not lead to the tables' loop, or the storage call to its notification
FailsOnEntry(p) ==
  /\ proc'[p] # proc[p]
  /\ \/ proc[p].pc = "read" /\ proc'[p].pc # "write"
     \/ proc[p].pc = "write" /\ proc'[p].emitted # proc[p].emitted + 1

\* the IndexMeta entry is as entry i - 1 left it or, at the first entry, as
\* the invocation read it (or could not read it)
CursorOfEntryBefore(p) ==
  IF proc[p].i > 1 THEN meta = proc[p].updates[proc[p].i - 1].version
  ELSE proc[p].start = 1 \/ meta = proc[p].start - 1

\* the invocation ends there with an error: no entry after i is applied, no
\* source-indexed or indexes-updated is emitted, nothing is written
AbortsBatch(p) ==
  /\ \E e \in ArchiveErrors : Finish(p, e, proc[p].ver)
  /\ meta' = meta /\ tables' = tables
  /\ CursorOfEntryBefore(p)

\* the matching tables that come before table k for the path
MatchingBefore(path, k) ==
  {t \in 1..Len(Tables) : t < k /\ isRecordFile(t, path)}

\* the records the failed entry has put: none if the read or the parse
\* failed; if a put or a del at table k failed, those of the valid records at
\* the matching tables before k, which stay in their tables
PartialWrite(p) ==
  /\ proc[p].pc = "read" => proc[p].wrote = 0
  /\ proc[p].pc = "write" =>
       /\ proc[p].wrote <= Cardinality(MatchingBefore(Update(p).path, proc[p].k))
       /\ proc[p].wrote > 0 =>
            \E t \in MatchingBefore(Update(p).path, proc[p].k) :
              tables[t][Update(p).path] # NoRec
       /\ MatchingBefore(Update(p).path, proc[p].k) = {} => proc[p].wrote = 0

C14_ContendedIsSkipped ==
  [][\A p \in Invocations :
       proc[p].behind =>
         /\ proc'[p].pc \in {"lock", "idle"}
         /\ proc'[p] # proc[p] => meta' = meta /\ tables' = tables]_vars

\* C15: retries happen only after timeouts.  If the initial pass of
\* addArchive fails with another error, source-error is emitted once and
\* there is no retry, no source-missing and no watch; if a retry fails with
\* another error, the loop ends with no further retry, no source-found, no
\* source-error and no watch.
C15_OtherErrorsEndRetries ==
  /\ \A i \in 1..Len(add.trace) :
       add.trace[i].ev = "retry" =>
         i > 1 /\ add.trace[i - 1].ev \in {"timeout", "source-missing"}
  /\ Count("error") > 0 =>
       /\ add.pc = "done" /\ proc[Adder].pc = "idle"
       /\ Count("error") = 1
       /\ add.trace[1].ev = "error" =>
            (Observed = Event(add, "source-error") /\ Len(add.trace) = 2)
       /\ add.trace[1].ev # "error" =>
            /\ add.trace[Len(add.trace)].ev = "error"
            /\ add.trace[Len(add.trace) - 1].ev = "retry"
            /\ Count("source-missing") = 1
            /\ Count("source-found") = 0 /\ Count("source-error") = 0
       /\ Count("watch") = 0 /\ ~watch.fileEvents /\ watch.loading = 0

\* with watch requested, the initial pass timed out and the first retry has
\* failed with another error: the loop is over
C15_Witness ==
  /\ add.watch /\ add.pc = "done"
  /\ Len(add.trace) = 4
  /\ add.trace[1].ev = "timeout" /\ add.trace[3].ev = "retry"
  /\ add.trace[4].ev = "error"

\* the parsed content of the file of the update that invocation p is at
Parsed(p) == JSONParse(readFile(Update(p).path, Update(p).version))

\* C16: when a path matches several tables, readAndIndexFile indexes it into
\* each of them independently: what a table validates, preprocesses and stores
\* is derived from the parsed file content alone, not from what another
\* matching table made of it
C16_TablesIndexedIndependently ==
  [][\A p \in Invocations :
       (proc[p].pc = "write" /\ proc'[p].emitted = proc[p].emitted + 1) =>
         tables'[proc[p].k][Update(p).path] = Stored(proc[p].k, Parsed(p))]_vars

\* the step in which invocation p, having written to the tables, writes the
\* cursor of its last update: all its changes are applied
AppliesLast(p) ==
  /\ proc[p].pc = "meta" /\ proc[p].i = Len(proc[p].updates)
  /\ proc[p].emitted > 0
  /\ meta # Update(p).version /\ meta' = Update(p).version

\* C17: a fault raised by an observer of put-record, del-record,
\* source-indexed or indexes-updated is caught inside the indexer: it never
\* propagates out of indexArchive, and a pass that applied all its changes is
\* never reported as failed (source-error, or no watch, in addArchive)
C17_ObserverFaultsAreCaught ==
  [][\A p \in Invocations :
       AppliesLast(p) =>
         /\ Finish(p, "ok", proc[p].ver)
         /\ p = Adder => Count("error")' = 0]_vars

\* C18: once removeArchive has completed the archive stays unindexed: no
\* record of the archive and no IndexMeta entry for it is written afterwards,
\* whatever pass was queued behind the lock during the removal
C18_RemovedStaysUnindexed ==
  [][rm.removed =>
       /\ meta' # meta => meta' = NoMeta
       /\ \A t \in 1..Len(Tables) : \A path \in Paths :
            tables'[t][path] # tables[t][path] => tables'[t][path] = NoRec]_vars

\* C19: at any time the archive has at most one open change subscription,
\* and once unwatchArchive (or removeArchive) has ended with no later
\* watchArchive call it has none, also when calls are made while an earlier
\* watchArchive awaits the archive's load
C19_AtMostOneSubscription ==
  /\ watch.open <= 1
  /\ watch.detached => watch.open = 0

\* nothing is left to do: no event is pending and no invocation in flight
Quiet == watch.events = 0 /\ lock = <<>>

\* every table holds what the code's loop over the tables stores for the
\* last change of each of its files
LatestApplied ==
  \A t \in 1..Len(Tables) : \A path \in Paths :
    tables[t][path] =
      IF isRecordFile(t, path) /\ LastChange(path, Version) > 0
      THEN Applied(t, path, LastChange(path, Version))
      ELSE NoRec

\* no update is lost and no queued invocation waits for ever
EventuallyApplied ==
  /\ <>[](Quiet /\ LatestApplied)
  /\ \A p \in Callers : (proc[p].pc = "lock") ~> (proc[p].pc # "lock")

\* C20: for a watched source with the db open, if every change raises a
\* changed event, the source stops changing and no call fails, then
\* eventually every matching change is applied and the index reflects the
\* final file contents, also for changes arriving while a pass is in flight;
\* and every invocation queued behind the lock is eventually granted it
C20_ChangesEventuallyIndexed ==
  /\ <>[](Quiet /\ Reflects(tables, Version))
  /\ \A p \in Callers : (proc[p].pc = "lock") ~> (proc[p].pc # "lock")
====
